---- MODULE Spec2Model ----
(***************************************************************************)
(* A model of the terminal client of the grid game (src/client.py): the    *)
(* GameClient object, its message handlers handle_init / handle_state, the *)
(* renderer draw, and the receive / draw / read-key / send loop main_loop. *)
(*                                                                         *)
(* Python lists are sequences (index i of Python is index i+1 here), JSON  *)
(* objects are records whose DOMAIN is the set of keys present, and an     *)
(* exception raised inside a handler ends the process with the mutations   *)
(* made before the raise left in place.                                    *)
(***************************************************************************)
EXTENDS Integers, Sequences, FiniteSets, TLC

(***************************************************************************)
(* Bounds of the model.                                                    *)
(***************************************************************************)
\* the largest width of a grid an init message announces
MaxW == 2
\* the largest height of a grid an init message announces
MaxH == 1
\* the most descriptors (walls, exit, players, enemies, treasure) of a message
MaxDesc == 2
\* the number of events (messages arriving, keys pressed) of one session
MaxEvents == 3

VARIABLES
    map,        \* self.map: the rows of the grid, each a sequence of tiles
    map_size,   \* self.map_size
    players,    \* self.players: id -> Player
    enemies,    \* self.enemies: list of Enemy
    treasure,   \* self.treasure
    exit,       \* self.exit
    data,       \* main_loop's local `data`: the last message received
    pc,         \* where main_loop is: "recv", "inkey", "exited", "crashed"
    keybuf,     \* keystrokes typed and not yet read by term.inkey
    sent,       \* the messages written with ws.send, oldest first
    drawn,      \* the positions at which the last draw() printed a tile
    hidden_cursor, \* the terminal's cursor is hidden (with term.hidden_cursor())
    cbreak,     \* the terminal is in cbreak mode (with term.cbreak())
    connected,  \* the websocket is open (async with websockets.connect(...))
    nevents,    \* the number of messages received and keys pressed so far
    state_seen, \* history: whether handle_state has been called yet
    same_again, \* history: whether the last message equals the one before it
    prev_players, \* history: self.players as it was when the last message arrived
    last_key    \* history: what the last term.inkey returned ("" on a timeout)

vars == <<map, map_size, players, enemies, treasure, exit, data, pc,
          keybuf, sent, drawn, hidden_cursor, cbreak, connected,
          nevents, state_seen, same_again, prev_players, last_key>>

(***************************************************************************)
(* Tiles (src/client.py, classes Tile .. Exit).  The glyph and the         *)
(* terminal handle of a tile play no part in the state machine.            *)
(***************************************************************************)
None == [kind |-> "None"]

\* main_loop's `data` before the first message: not bound yet
Unbound == [type |-> "unbound"]

Empty(x, y) == [kind |-> "Empty", walkable |-> TRUE, x |-> x, y |-> y]

Wall(x, y, size) ==
    [kind |-> "Wall", walkable |-> FALSE, x |-> x, y |-> y,
     map_size |-> size, is_pretty |-> FALSE]

Player(x, y, is_self) ==
    [kind |-> "Player", walkable |-> TRUE, x |-> x, y |-> y, is_self |-> is_self]

Enemy(x, y) == [kind |-> "Enemy", walkable |-> TRUE, x |-> x, y |-> y]

Treasure(x, y, collected) ==
    [kind |-> "Treasure", walkable |-> TRUE, x |-> x, y |-> y,
     collected |-> collected]

Exit(x, y) == [kind |-> "Exit", walkable |-> TRUE, x |-> x, y |-> y]

(***************************************************************************)
(* Python list indexing: an index i of a list of length n is valid iff     *)
(* -n <= i < n, and a negative index counts from the end.                  *)
(***************************************************************************)
InRange(i, n) == -n <= i /\ i < n

Index(i, n) == IF i < 0 THEN i + n ELSE i

\* SetCell with the two indices exchanged: self.map[x][y] = tile
SetCell_transposed(m, x, y, tile) ==
    IF ~InRange(x, Len(m))
    THEN [raised |-> TRUE, map |-> m]
    ELSE LET r == Index(x, Len(m)) + 1
         IN  IF ~InRange(y, Len(m[r]))
             THEN [raised |-> TRUE, map |-> m]
             ELSE [raised |-> FALSE,
                   map |-> [m EXCEPT ![r][Index(y, Len(m[r])) + 1] = tile]]

\* self.map[y][x] = tile: the new map, or an IndexError
SetCell(m, x, y, tile) ==
    IF ~InRange(y, Len(m))
    THEN [raised |-> TRUE, map |-> m]
    ELSE LET r == Index(y, Len(m)) + 1
         IN  IF ~InRange(x, Len(m[r]))
             THEN [raised |-> TRUE, map |-> m]
             ELSE [raised |-> FALSE,
                   map |-> [m EXCEPT ![r][Index(x, Len(m[r])) + 1] = tile]]

\* the fields of the GameClient object the handlers read and write
Self == [map |-> map, map_size |-> map_size, players |-> players,
         enemies |-> enemies, treasure |-> treasure, exit |-> exit]

Ok(g) == [raised |-> FALSE, g |-> g]

Raise(g) == [raised |-> TRUE, g |-> g]

(***************************************************************************)
(* handle_init (src/client.py:163-172).                                    *)
(***************************************************************************)
RECURSIVE InitWalls(_, _, _)
\* for wall in data["walls"]: self.map[y][x] = Wall(...), from the i-th on
InitWalls(g, walls, i) ==
    IF i > Len(walls)
    THEN Ok(g)
    ELSE LET w == walls[i]
             r == SetCell(g.map, w.x, w.y, Wall(w.x, w.y, g.map_size))
         IN  IF r.raised
             THEN Raise(g)
             ELSE InitWalls([g EXCEPT !.map = r.map], walls, i + 1)

handle_init(g, d) ==
    IF ~({"width", "height"} \subseteq DOMAIN d)
    THEN Raise(g)
    ELSE
    LET g1 == [g EXCEPT !.map_size = <<d.width, d.height>>,
                        !.map = [y \in 1..d.height |->
                                    [x \in 1..d.width |-> Empty(x - 1, y - 1)]]]
    IN  IF "walls" \notin DOMAIN d
        THEN Raise(g1)
        ELSE
        LET r == InitWalls(g1, d.walls, 1)
        IN  IF r.raised \/ "exit" \notin DOMAIN d
            THEN r
            ELSE
            LET g2 == [r.g EXCEPT !.exit = Exit(d.exit.x, d.exit.y)]
                s  == SetCell(g2.map, d.exit.x, d.exit.y, g2.exit)
            IN  IF s.raised THEN Raise(g2) ELSE Ok([g2 EXCEPT !.map = s.map])

(***************************************************************************)
(* handle_state (src/client.py:174-191).                                   *)
(***************************************************************************)
\* the empty dict
EmptyDict == [k \in {} |-> None]

\* f[k] = v on a dict
Put(f, k, v) == [p \in DOMAIN f \cup {k} |-> IF p = k THEN v ELSE f[p]]

\* pid == self.player_id, a field that is None and never assigned
IsYou_player_id(d, pid) == FALSE

\* pid == data.get("you")
IsYou(d, pid) == "you" \in DOMAIN d /\ d.you = pid

RECURSIVE StatePlayers(_, _, _)
\* for pid, pos in data["players"].items(): ..., from the i-th item on
StatePlayers(g, d, i) ==
    IF i > Len(d.players)
    THEN Ok(g)
    ELSE LET p      == d.players[i]
             player == Player(p.x, p.y, IsYou(d, p.id))
             g1     == [g EXCEPT !.players = Put(g.players, p.id, player)]
             r      == SetCell(g1.map, p.x, p.y, player)
         IN  IF r.raised
             THEN Raise(g1)
             ELSE StatePlayers([g1 EXCEPT !.map = r.map], d, i + 1)

RECURSIVE StateEnemies(_, _, _)
\* for pos in data["enemies"]: ..., from the i-th element on.  Iterating a
\* JSON object yields its keys, and pos["x"] on a string is a TypeError.
StateEnemies(g, d, i) ==
    IF i > Len(d.enemies.items)
    THEN Ok(g)
    ELSE IF d.enemies.form = "object"
    THEN Raise(g)
    ELSE LET p     == d.enemies.items[i]
             enemy == Enemy(p.x, p.y)
             g1    == [g EXCEPT !.enemies = Append(g.enemies, enemy)]
             r     == SetCell(g1.map, p.x, p.y, enemy)
         IN  IF r.raised
             THEN Raise(g1)
             ELSE StateEnemies([g1 EXCEPT !.map = r.map], d, i + 1)

\* if "treasure" in data: ...
StateTreasure(g, d) ==
    IF "treasure" \notin DOMAIN d
    THEN Ok(g)
    ELSE LET t  == d.treasure
             c  == IF "collected" \in DOMAIN t THEN t.collected ELSE FALSE
             g1 == [g EXCEPT !.treasure = Treasure(t.x, t.y, c)]
             r  == SetCell(g1.map, t.x, t.y, g1.treasure)
         IN  IF r.raised THEN Raise(g1) ELSE Ok([g1 EXCEPT !.map = r.map])

\* ClearRegistry without self.enemies.clear()
ClearRegistry_players_only(g) == [g EXCEPT !.players = EmptyDict]

\* self.players.clear(); self.enemies.clear()
ClearRegistry(g) == [g EXCEPT !.players = EmptyDict, !.enemies = <<>>]

RECURSIVE StatePlayers_vacating(_, _, _)
\* the players loop that first resets the cell a tracked player comes from
StatePlayers_vacating(g, d, i) ==
    IF i > Len(d.players)
    THEN Ok(g)
    ELSE LET p      == d.players[i]
             player == Player(p.x, p.y, IsYou(d, p.id))
             v      == IF p.id \in DOMAIN g.players
                       THEN SetCell(g.map, g.players[p.id].x, g.players[p.id].y,
                                    Empty(g.players[p.id].x, g.players[p.id].y))
                       ELSE [raised |-> FALSE, map |-> g.map]
             g1     == [g EXCEPT !.players = Put(g.players, p.id, player),
                                 !.map = v.map]
             r      == SetCell(g1.map, p.x, p.y, player)
         IN  IF v.raised \/ r.raised
             THEN Raise(g1)
             ELSE StatePlayers_vacating([g1 EXCEPT !.map = r.map], d, i + 1)

\* handle_state keeping the registry and vacating per player, in message order
handle_state_vacating(g, d) ==
    LET g0 == [g EXCEPT !.enemies = <<>>]
    IN  IF "players" \notin DOMAIN d
        THEN Raise(g0)
        ELSE
        LET r1 == StatePlayers_vacating(g0, d, 1)
        IN  IF r1.raised
            THEN r1
            ELSE IF "enemies" \notin DOMAIN d
            THEN Raise(r1.g)
            ELSE
            LET r2 == StateEnemies(r1.g, d, 1)
            IN  IF r2.raised THEN r2 ELSE StateTreasure(r2.g, d)

\* handle_state with the enemies loop ahead of the players loop
handle_state_enemies_first(g, d) ==
    LET g0 == ClearRegistry(g)
    IN  IF "enemies" \notin DOMAIN d
        THEN Raise(g0)
        ELSE
        LET r1 == StateEnemies(g0, d, 1)
        IN  IF r1.raised
            THEN r1
            ELSE IF "players" \notin DOMAIN d
            THEN Raise(r1.g)
            ELSE
            LET r2 == StatePlayers(r1.g, d, 1)
            IN  IF r2.raised THEN r2 ELSE StateTreasure(r2.g, d)

handle_state(g, d) ==
    LET g0 == ClearRegistry(g)
    IN  IF "players" \notin DOMAIN d
        THEN Raise(g0)
        ELSE
        LET r1 == StatePlayers(g0, d, 1)
        IN  IF r1.raised
            THEN r1
            ELSE IF "enemies" \notin DOMAIN d
            THEN Raise(r1.g)
            ELSE
            LET r2 == StateEnemies(r1.g, d, 1)
            IN  IF r2.raised THEN r2 ELSE StateTreasure(r2.g, d)

(***************************************************************************)
(* draw (src/client.py:193-198): the screen is cleared and every tile of   *)
(* every row is printed; the result is the set of grid coordinates (x, y)  *)
(* whose tile was printed.                                                 *)
(***************************************************************************)
\* draw printing only the tiles that are not Empty
draw_occupied(m) ==
    UNION {{<<c - 1, r - 1>> : c \in {k \in 1..Len(m[r]) : m[r][k].kind # "Empty"}} :
              r \in 1..Len(m)}

draw(m) == UNION {{<<c - 1, r - 1>> : c \in 1..Len(m[r])} : r \in 1..Len(m)}

(***************************************************************************)
(* The messages the server may send (spec.md, wire protocol) and the keys  *)
(* the user may press.  A coordinate of a message is a cell of the largest *)
(* grid or lies one to the left of it: it is out of bounds on a smaller    *)
(* grid, and negative in the second case.  A message carries at most       *)
(* MaxDesc descriptors (walls, exit, players, enemies, treasure).          *)
(***************************************************************************)
Pts == [x : -1..(MaxW - 1), y : 0..(MaxH - 1)]

PIDs == <<"p1", "p2">>

SeqsUpTo(S, n) == UNION {[1..k -> S] : k \in 0..n}

\* the JSON object m with key k set to v
With(m, k, v) == [f \in DOMAIN m \cup {k} |-> IF f = k THEN v ELSE m[f]]

InitMsgs ==
    LET core(n) == {[type |-> "init", width |-> w, height |-> h, walls |-> ws] :
                       w \in 1..MaxW, h \in 1..MaxH, ws \in SeqsUpTo(Pts, n)}
    IN  core(MaxDesc)
          \cup {With(m, "exit", e) : m \in core(MaxDesc - 1), e \in Pts}

\* the items of a players object naming the first k ids, in either order
PlayerLists(k) ==
    {ps \in [1..k -> [id : {PIDs[i] : i \in 1..k}, x : -1..(MaxW - 1), y : 0..(MaxH - 1)]] :
        \A i, j \in 1..k : i # j => ps[i].id # ps[j].id}

Treasures == Pts \cup {With(p, "collected", TRUE) : p \in Pts}

StateMsgs ==
    LET core(n) ==
            {[type |-> "state", players |-> ps,
              enemies |-> [form |-> "list", items |-> es]] :
                ps \in UNION {PlayerLists(k) : k \in 0..(IF n < Len(PIDs) THEN n ELSE Len(PIDs))},
                es \in SeqsUpTo(Pts, n)}
        sized(n) == {m \in core(n) : Len(m.players) + Len(m.enemies.items) <= n}
        plain    == sized(MaxDesc)
                      \cup {With(m, "treasure", t) : m \in sized(MaxDesc - 1), t \in Treasures}
    IN  plain \cup {With(m, "you", PIDs[1]) : m \in {q \in plain : q.players # <<>>}}

\* state messages that are not of the shape handle_state expects: no enemies
\* key, no players key, and the enemies given as a JSON object id -> {x, y}
OddStateMsgs ==
    {[type |-> "state", players |-> ps] : ps \in PlayerLists(0) \cup PlayerLists(1)}
      \cup {[type |-> "state", enemies |-> [form |-> "list", items |-> <<>>]]}
      \cup {[type |-> "state", players |-> <<>>,
             enemies |-> [form |-> "object", items |-> es]] :
                es \in SeqsUpTo([id : {"e1"}, x : -1..(MaxW - 1), y : 0..(MaxH - 1)], 1)}

OtherMsgs == {[type |-> "ping"]}

Messages == InitMsgs \cup StateMsgs \cup OddStateMsgs \cup OtherMsgs

Keys == {"w", "a", "s", "d", "q", "x", "W", "A", "S", "D", "Q"}

\* the key taken as typed, without key.lower()
lower_identity(k) == k

\* key.lower()
lower(k) ==
    CASE k = "W" -> "w" [] k = "A" -> "a" [] k = "S" -> "s"
      [] k = "D" -> "d" [] k = "Q" -> "q" [] OTHER -> k

\* {"w": "up", "s": "down", "a": "left", "d": "right"}.get(key.lower())
direction(key) ==
    CASE lower(key) = "w" -> "up"   [] lower(key) = "s" -> "down"
      [] lower(key) = "a" -> "left" [] lower(key) = "d" -> "right"
      [] OTHER -> "None"

(***************************************************************************)
(* connect and main_loop (src/client.py:137-161).  The session starts      *)
(* inside the three with blocks, at the first ws.recv(): the websocket is  *)
(* open, the cursor hidden and the terminal in cbreak mode.                *)
(***************************************************************************)
\* the three with blocks released only by an `except Exception:` handler,
\* which the SystemExit of exit() passes by
Unwind_except_Exception(exc) ==
    /\ hidden_cursor' = (exc = "SystemExit")
    /\ cbreak' = (exc = "SystemExit")
    /\ connected' = (exc = "SystemExit")

\* exception exc leaves main_loop and connect through their with blocks:
\* cbreak and hidden_cursor restore the terminal, connect closes the socket
Unwind(exc) ==
    /\ hidden_cursor' = FALSE
    /\ cbreak' = FALSE
    /\ connected' = FALSE

Init ==
    /\ map = <<>>
    /\ map_size = <<0, 0>>
    /\ players = EmptyDict
    /\ enemies = <<>>
    /\ treasure = None
    /\ exit = None
    /\ data = Unbound
    /\ pc = "recv"
    /\ keybuf = <<>>
    /\ sent = <<>>
    /\ drawn = {}
    /\ hidden_cursor = TRUE
    /\ cbreak = TRUE
    /\ connected = TRUE
    /\ nevents = 0
    /\ state_seen = FALSE
    /\ same_again = FALSE
    /\ prev_players = EmptyDict
    /\ last_key = ""

\* the dispatch with a plain else in place of elif data["type"] == "state"
Dispatch_else(g, d) ==
    IF d.type = "init" THEN handle_init(g, d) ELSE handle_state(g, d)

\* the dispatch on data["type"]
Dispatch(g, d) ==
    IF d.type = "init" THEN handle_init(g, d)
    ELSE IF d.type = "state" THEN handle_state(g, d)
    ELSE Ok(g)

\* message = await ws.recv() .. self.draw(): one message arrives and is handled
Recv(m) ==
    /\ pc = "recv"
    /\ nevents < MaxEvents
    /\ nevents' = nevents + 1
    /\ data' = m
    /\ state_seen' = (state_seen \/ m.type = "state")
    /\ same_again' = (m = data)
    /\ prev_players' = players
    /\ LET r == Dispatch(Self, m)
       IN  /\ map' = r.g.map
           /\ map_size' = r.g.map_size
           /\ players' = r.g.players
           /\ enemies' = r.g.enemies
           /\ treasure' = r.g.treasure
           /\ exit' = r.g.exit
           /\ pc' = IF r.raised THEN "crashed" ELSE "inkey"
           /\ drawn' = IF r.raised THEN drawn ELSE draw(r.g.map)
           /\ IF r.raised
              THEN Unwind("Exception")
              ELSE UNCHANGED <<hidden_cursor, cbreak, connected>>
    /\ UNCHANGED <<keybuf, sent, last_key>>

\* ws.recv() raises ConnectionClosed: the server closed the connection
RecvClosed ==
    /\ pc = "recv"
    /\ pc' = "crashed"
    /\ Unwind("ConnectionClosed")
    /\ UNCHANGED <<map, map_size, players, enemies, treasure, exit, data,
                   keybuf, sent, drawn, nevents, state_seen, same_again,
                   prev_players, last_key>>

\* key = self.term.inkey(timeout=0.05) .. await ws.send(...)
Inkey ==
    /\ pc = "inkey"
    /\ LET key == IF keybuf = <<>> THEN "" ELSE Head(keybuf)
       IN  /\ keybuf' = IF keybuf = <<>> THEN <<>> ELSE Tail(keybuf)
           /\ last_key' = key
           /\ IF lower(key) = "q"
              THEN pc' = "exited" /\ sent' = sent /\ Unwind("SystemExit")
              ELSE /\ pc' = "recv"
                   /\ sent' = IF key # "" /\ direction(key) # "None"
                              THEN Append(sent, [type |-> "move", dir |-> direction(key)])
                              ELSE sent
                   /\ UNCHANGED <<hidden_cursor, cbreak, connected>>
    /\ UNCHANGED <<map, map_size, players, enemies, treasure, exit, data,
                   drawn, nevents, state_seen, same_again, prev_players>>

\* key = self.term.inkey(...) returns a movement key and ws.send raises
\* ConnectionClosed: the server closed the connection in the meantime
SendClosed ==
    /\ pc = "inkey"
    /\ keybuf # <<>>
    /\ direction(Head(keybuf)) # "None"
    /\ keybuf' = Tail(keybuf)
    /\ last_key' = Head(keybuf)
    /\ pc' = "crashed"
    /\ Unwind("ConnectionClosed")
    /\ UNCHANGED <<map, map_size, players, enemies, treasure, exit, data,
                   sent, drawn, nevents, state_seen, same_again, prev_players>>

\* the user presses a key; the terminal buffers it until inkey reads it
PressKey(k) ==
    /\ pc \in {"recv", "inkey"}
    /\ nevents < MaxEvents
    /\ nevents' = nevents + 1
    /\ keybuf' = Append(keybuf, k)
    /\ UNCHANGED <<map, map_size, players, enemies, treasure, exit, data, pc,
                   sent, drawn, hidden_cursor, cbreak, connected,
                   state_seen, same_again, prev_players, last_key>>

Next ==
    \/ \E m \in Messages : Recv(m)
    \/ RecvClosed
    \/ Inkey
    \/ SendClosed
    \/ \E k \in Keys : PressKey(k)

Spec == Init /\ [][Next]_vars

(***************************************************************************)
(* Vocabulary of the properties.                                           *)
(***************************************************************************)
\* a step of Recv: a message arrived and was dispatched (it is data')
Received == pc = "recv" /\ nevents' = nevents + 1 /\ pc' # "recv"

\* a step of Recv whose handler raised nothing: the loop goes on to inkey
Handled == Received /\ pc' = "inkey"

\* the coordinates of a grid m, and the tile at a coordinate
Coords(m) == UNION {{<<c - 1, r - 1>> : c \in 1..Len(m[r])} : r \in 1..Len(m)}

At(m, xy) == m[xy[2] + 1][xy[1] + 1]

\* a coordinate of a descriptor lies in [0, w) x [0, h)
InBounds(p, w, h) == 0 <= p.x /\ p.x < w /\ 0 <= p.y /\ p.y < h

\* what C1 calls a valid init message, and the coordinates it lists
ValidInit(d) ==
    /\ d.type = "init"
    /\ {"width", "height", "walls"} \subseteq DOMAIN d
    /\ d.width > 0 /\ d.height > 0
    /\ \A i \in 1..Len(d.walls) : InBounds(d.walls[i], d.width, d.height)
    /\ "exit" \in DOMAIN d => InBounds(d.exit, d.width, d.height)

WallsOf(d) == {<<d.walls[i].x, d.walls[i].y>> : i \in 1..Len(d.walls)}

ExitOf(d) == IF "exit" \in DOMAIN d THEN {<<d.exit.x, d.exit.y>>} ELSE {}

Rectangular(m, w, h) == Len(m) = h /\ \A r \in 1..Len(m) : Len(m[r]) = w

(***************************************************************************)
(* C1 as stated: after a valid init message (width, height > 0, every wall *)
(* and the exit in bounds) the grid has height rows of width cells, every  *)
(* coordinate of the walls list holds a Wall, the exit coordinate holds    *)
(* the Exit and every other coordinate holds Empty.  The code writes the   *)
(* exit after the walls, so an exit placed on a listed wall replaces it.   *)
(***************************************************************************)
C1_InitGridAsStated ==
    ValidInit(data) =>
        /\ Rectangular(map, data.width, data.height)
        /\ \A xy \in Coords(map) :
            /\ xy \in WallsOf(data) => At(map, xy).kind = "Wall"
            /\ xy \in ExitOf(data) => At(map, xy).kind = "Exit"
            /\ xy \notin WallsOf(data) \cup ExitOf(data)
                  => At(map, xy) = Empty(xy[1], xy[2])

(***************************************************************************)
(* C1 amended: ... every coordinate of the walls list other than the exit  *)
(* coordinate holds a Wall, the exit coordinate (if given) holds the Exit, *)
(* and every other coordinate holds Empty.                                 *)
(***************************************************************************)
C1_InitGrid ==
    ValidInit(data) =>
        /\ Rectangular(map, data.width, data.height)
        /\ \A xy \in Coords(map) :
             At(map, xy) =
                IF xy \in ExitOf(data) THEN Exit(xy[1], xy[2])
                ELSE IF xy \in WallsOf(data)
                     THEN Wall(xy[1], xy[2], <<data.width, data.height>>)
                     ELSE Empty(xy[1], xy[2])

\* witness of C1: a valid init with a wall and an exit on the two cells of a
\* two-cell grid was applied
C1_Witness ==
    /\ ValidInit(data)
    /\ pc = "inkey"
    /\ Cardinality(Coords(map)) = 2
    /\ Cardinality(WallsOf(data)) = 1
    /\ Cardinality(ExitOf(data) \ WallsOf(data)) = 1

PosOf(t) == <<t.x, t.y>>

\* the cell self.map[p.y][p.x] of a grid of the given size
CellOf(p, size) == <<Index(p.x, size[1]), Index(p.y, size[2])>>

\* the cells a state message d writes for descriptors other than the players ids
OtherWrites(d, ids, size) ==
    {CellOf(d.players[i], size) :
        i \in {j \in 1..Len(d.players) : d.players[j].id \notin ids}}
      \cup {CellOf(d.enemies.items[i], size) : i \in 1..Len(d.enemies.items)}
      \cup (IF "treasure" \in DOMAIN d THEN {CellOf(d.treasure, size)} ELSE {})

(***************************************************************************)
(* C2 as stated: when a state message gives a new position to a player id  *)
(* placed by an earlier state message, the player's prior coordinate holds *)
(* Empty afterwards and the new coordinate holds that Player.  Stated for  *)
(* the moves in which both coordinates lie in the grid and no other        *)
(* descriptor of the message names either of them.                         *)
(***************************************************************************)
C2_VacateOnMove ==
    [][(Handled /\ data'.type = "state") =>
        \A pid \in DOMAIN players \cap DOMAIN players' :
            LET old == PosOf(players[pid])
                new == PosOf(players'[pid])
            IN  (/\ old # new
                 /\ {old, new} \subseteq Coords(map')
                 /\ {old, new} \cap OtherWrites(data', {pid}, map_size') = {})
                => /\ At(map', old) = Empty(old[1], old[2])
                   /\ At(map', new) = players'[pid]]_vars

\* a step in which ws.send wrote one message
Sending == Len(sent') = Len(sent) + 1

Offset(dir) ==
    CASE dir = "up" -> <<0, -1>> [] dir = "down" -> <<0, 1>>
      [] dir = "left" -> <<-1, 0>> [] dir = "right" -> <<1, 0>>

\* the positions of the tracked players marked is_self that lie in the grid
SelfCells ==
    {PosOf(players[p]) : p \in {q \in DOMAIN players : players[q].is_self}}
      \cap Coords(map)

Walkable(m, xy) == xy \in Coords(m) /\ At(m, xy).walkable

(***************************************************************************)
(* C3 as stated: a movement key causes an outbound move message only if    *)
(* the target coordinate, the self position plus the offset of the         *)
(* direction, is walkable in the current grid: inside it and not a Wall.   *)
(***************************************************************************)
C3_MoveOnlyIfWalkable ==
    [][Sending =>
        \A sp \in SelfCells :
            LET o == Offset(sent'[Len(sent')].dir)
            IN  Walkable(map, <<sp[1] + o[1], sp[2] + o[2]>>)]_vars

(***************************************************************************)
(* C4 as stated: while no state message has been processed, a movement key *)
(* never results in an outbound move message.                              *)
(***************************************************************************)
C4_NoMoveBeforeState == [][Sending => state_seen]_vars

(***************************************************************************)
(* The loop under fair scheduling: a key read that can run does run (inkey *)
(* returns after its 50 ms timeout at the latest).  Nothing obliges the    *)
(* server to send, the connection to close or the user to type.            *)
(***************************************************************************)
FairSpec == Spec /\ WF_vars(Inkey)

\* a q typed and not read yet; the process has ended
QPending == \E i \in 1..Len(keybuf) : lower(keybuf[i]) = "q"

Terminated == pc \in {"exited", "crashed"}

(***************************************************************************)
(* C5 as stated: once the user has pressed q, the client loop eventually   *)
(* terminates in every execution, also when the server sends no further    *)
(* message.  A session that has used up its MaxEvents events is left out,  *)
(* so that a run refuting this waits in ws.recv() for a message the server *)
(* could still send and does not.                                          *)
(***************************************************************************)
C5_QuitTerminates ==
    (QPending /\ nevents < MaxEvents) ~> (Terminated \/ nevents = MaxEvents)

\* a state message with a players field and no enemies field
LacksEnemies(d) ==
    /\ d.type = "state"
    /\ "players" \in DOMAIN d
    /\ "enemies" \notin DOMAIN d

(***************************************************************************)
(* C6 as stated: a state message without the enemies field, its players    *)
(* field valid (every player inside the grid), is a non-fatal malformed    *)
(* message: the grid and the entity registry are after it what they were   *)
(* before it, and the loop goes on to the key read.                        *)
(***************************************************************************)
C6_MissingEnemiesNonFatal ==
    [][(/\ Received
        /\ LacksEnemies(data')
        /\ \A i \in 1..Len(data'.players) : PosOf(data'.players[i]) \in Coords(map))
        => /\ pc' = "inkey"
           /\ map' = map
           /\ players' = players
           /\ enemies' = enemies]_vars

(***************************************************************************)
(* C7: a message whose type is neither init nor state is ignored: grid,    *)
(* dimensions, player registry, enemy list, treasure and exit are left     *)
(* unchanged by it, and the loop continues with the key read.              *)
(***************************************************************************)
C7_OtherTypeIgnored ==
    [][(Received /\ data'.type \notin {"init", "state"})
        => /\ pc' = "inkey"
           /\ UNCHANGED <<map, map_size, players, enemies, treasure, exit>>]_vars

\* witness of C7: a message of another type was handled on a grid with a
\* tracked player
C7_Witness ==
    /\ data.type \notin {"init", "state", "unbound"}
    /\ pc = "inkey"
    /\ map # <<>>
    /\ DOMAIN players # {}

\* message d gives player pid the position xy
Gives(d, pid, xy) ==
    \E i \in 1..Len(d.players) :
        d.players[i].id = pid /\ PosOf(d.players[i]) = xy

(***************************************************************************)
(* C8: when one state message swaps two tracked players (p at A moves to   *)
(* B, q at B moves to A, A and B cells of the grid), then afterwards B     *)
(* holds p's Player cell, A holds q's Player cell and the registry maps p  *)
(* to B and q to A, in either order of the two items.  An enemy or a       *)
(* treasure the same message puts on A or B is written after the players   *)
(* and is not part of the swap.                                            *)
(***************************************************************************)
C8_SwapAppliesBoth ==
    [][(Handled /\ data'.type = "state") =>
        \A p, q \in DOMAIN players :
            LET A == PosOf(players[p])
                B == PosOf(players[q])
            IN  (/\ p # q /\ A # B
                 /\ {A, B} \subseteq Coords(map)
                 /\ Gives(data', p, B) /\ Gives(data', q, A)
                 /\ {A, B} \cap OtherWrites(data', {p, q}, map_size) = {})
                => /\ {p, q} \subseteq DOMAIN players'
                   /\ PosOf(players'[p]) = B /\ players'[p].kind = "Player"
                   /\ PosOf(players'[q]) = A /\ players'[q].kind = "Player"
                   /\ At(map', B) = players'[p]
                   /\ At(map', A) = players'[q]]_vars

\* witness of C8: the last message exchanged the positions of two tracked players
C8_Witness ==
    /\ pc = "inkey"
    /\ data.type = "state"
    /\ \E p, q \in DOMAIN prev_players \cap DOMAIN players :
        /\ p # q
        /\ PosOf(prev_players[p]) # PosOf(prev_players[q])
        /\ {PosOf(prev_players[p]), PosOf(prev_players[q])} \subseteq Coords(map)
        /\ PosOf(players[p]) = PosOf(prev_players[q])
        /\ PosOf(players[q]) = PosOf(prev_players[p])

(***************************************************************************)
(* C9: applying the same state message twice in a row is idempotent: the   *)
(* second apply changes no cell of the grid and no registry entry (by type *)
(* and attributes), so no coordinate is dirty after it.                    *)
(***************************************************************************)
C9_StateIdempotent ==
    [][(Handled /\ data'.type = "state" /\ data' = data)
        => /\ map' = map
           /\ players' = players
           /\ enemies' = enemies
           /\ treasure' = treasure]_vars

\* witness of C9: a state message with a player and an enemy was applied twice
\* in a row
C9_Witness ==
    /\ pc = "inkey"
    /\ data.type = "state"
    /\ same_again
    /\ DOMAIN players # {}
    /\ enemies # <<>>

\* the coordinates whose cell differs between grid m and grid n
Dirty(m, n) ==
    (Coords(m) \cup Coords(n))
      \ {xy \in Coords(m) \cap Coords(n) : At(m, xy) = At(n, xy)}

Shape(m) == <<Len(m), [r \in 1..Len(m) |-> Len(m[r])]>>

(***************************************************************************)
(* C11 as stated: the grid dimensions are set exactly once: once an init   *)
(* message has been applied, no later message of any type, a second init   *)
(* with another width or height included, changes map_size or the number   *)
(* of rows and columns of the grid.                                        *)
(***************************************************************************)
C11_DimensionsSetOnce ==
    [][(Received /\ map_size # <<0, 0>>)
        => map_size' = map_size /\ Shape(map') = Shape(map)]_vars

(***************************************************************************)
(* C12: on every exit path of the client (the user quits, the transport is *)
(* closed while receiving or sending, a handler raises) the cursor is      *)
(* shown again, the terminal is out of cbreak mode and the websocket is    *)
(* closed when the process has ended.                                      *)
(***************************************************************************)
C12_ReleasedOnExit ==
    pc \in {"exited", "crashed"} => ~hidden_cursor /\ ~cbreak /\ ~connected

\* witness of C12: the user quit with q on a grid that was drawn, and the
\* terminal and the connection are released
C12_Witness ==
    /\ pc = "exited"
    /\ lower(last_key) = "q"
    /\ map # <<>>
    /\ ~hidden_cursor /\ ~cbreak /\ ~connected

(***************************************************************************)
(* C13 as stated: neither wait can stall the other: a key that is pressed  *)
(* is eventually read, the loop reaching the keyboard read even if the     *)
(* server never sends another message.  A session that has used up its     *)
(* MaxEvents events is left out, as for C5.                                *)
(***************************************************************************)
C13_KeyEventuallyRead ==
    (keybuf # <<>> /\ pc = "recv" /\ nevents < MaxEvents)
        ~> (pc = "inkey" \/ Terminated \/ nevents = MaxEvents)

\* a state message of the shape handle_state expects: a players object and
\* a list of enemies
ListShaped(d) ==
    /\ d.type = "state"
    /\ {"players", "enemies"} \subseteq DOMAIN d
    /\ d.enemies.form = "list"

\* the coordinates named by the descriptors of a message
DescsOf(d) ==
    IF d.type = "init"
    THEN WallsOf(d) \cup ExitOf(d)
    ELSE {PosOf(d.players[i]) : i \in 1..Len(d.players)}
           \cup {PosOf(d.enemies.items[i]) : i \in 1..Len(d.enemies.items)}
           \cup (IF "treasure" \in DOMAIN d THEN {PosOf(d.treasure)} ELSE {})

\* xy lies in [0, width) x [0, height)
InGrid(xy, size) ==
    0 <= xy[1] /\ xy[1] < size[1] /\ 0 <= xy[2] /\ xy[2] < size[2]

\* the grid of the given size with every cell Empty
EmptyGrid(size) ==
    [r \in 1..size[2] |-> [c \in 1..size[1] |-> Empty(c - 1, r - 1)]]

(***************************************************************************)
(* C14 as stated: a cell write at a coordinate outside [0, width) x        *)
(* [0, height), a negative x or y included, fails with an out-of-bounds    *)
(* error and changes no cell.  Stated per message: when a descriptor of an *)
(* init or state message lies outside the grid, the handler raises, and    *)
(* when all its descriptors lie outside, the grid holds what it held       *)
(* before the writes (for an init: the fresh grid of Empty cells).         *)
(***************************************************************************)
C14_OutOfBoundsFails ==
    [][(Received /\ (ListShaped(data') \/ data'.type = "init")) =>
        LET size == IF data'.type = "init"
                    THEN <<data'.width, data'.height>> ELSE map_size
            base == IF data'.type = "init" THEN EmptyGrid(size) ELSE map
            out  == {xy \in DescsOf(data') : ~InGrid(xy, size)}
        IN  /\ out # {} => pc' = "crashed"
            /\ (out # {} /\ out = DescsOf(data')) => map' = base]_vars

(***************************************************************************)
(* C15 as stated: a player id tracked after an earlier state message and   *)
(* absent from a later state message is still in the player registry after *)
(* the later message is applied: entries are never removed automatically.  *)
(***************************************************************************)
C15_AbsentPlayerKept ==
    [][(Handled /\ data'.type = "state")
        => DOMAIN players \subseteq DOMAIN players']_vars

\* the enemies of a state message given as a non-empty JSON object
\* id -> {x, y}, every position of the message inside the grid
EnemiesAsMapping(d) ==
    /\ d.type = "state"
    /\ {"players", "enemies"} \subseteq DOMAIN d
    /\ d.enemies.form = "object"
    /\ d.enemies.items # <<>>
    /\ DescsOf(d) \subseteq Coords(map)

(***************************************************************************)
(* C16 as stated: for a state message whose enemies field is a non-empty   *)
(* mapping id -> {x, y}, handle_state places an Enemy cell at every listed *)
(* position inside the grid and tracks one enemy per id, as for players.   *)
(***************************************************************************)
C16_EnemyMappingApplied ==
    [][(Received /\ EnemiesAsMapping(data')) =>
        /\ pc' = "inkey"
        /\ Len(enemies') = Len(data'.enemies.items)
        /\ \A i \in 1..Len(data'.enemies.items) :
              LET xy == PosOf(data'.enemies.items[i])
              IN  At(map', xy) = Enemy(xy[1], xy[2])]_vars

(***************************************************************************)
(* C17 as stated: Exit is immutable once placed: when the exit coordinate  *)
(* holds the Exit cell, it still holds it after any state message, also    *)
(* one that places a player, an enemy or the treasure on that coordinate.  *)
(***************************************************************************)
C17_ExitImmutable ==
    [][(/\ Handled /\ data'.type = "state"
        /\ exit # None
        /\ PosOf(exit) \in Coords(map)
        /\ At(map, PosOf(exit)) = exit)
        => /\ exit' = exit
           /\ At(map', PosOf(exit)) = exit]_vars

\* the direction bound to a key as typed, in either case; "" for the
\* other keys, q among them, and for the timeout of the key read
Binding(key) ==
    CASE key \in {"w", "W"} -> "up"   [] key \in {"s", "S"} -> "down"
      [] key \in {"a", "A"} -> "left" [] key \in {"d", "D"} -> "right"
      [] OTHER -> ""

(***************************************************************************)
(* C18: every outbound message is a move whose dir is determined by the    *)
(* key alone: w -> up, s -> down, a -> left, d -> right, in either case;   *)
(* q, every other key and a timeout of the key read send no message.  A    *)
(* key read that returns to ws.recv() has sent exactly the move bound to   *)
(* the key, if any; no other step sends.                                   *)
(***************************************************************************)
C18_MoveFromKeyAlone ==
    [][/\ (pc = "inkey" /\ pc' = "recv") =>
            sent' = IF Binding(last_key') = ""
                    THEN sent
                    ELSE Append(sent, [type |-> "move", dir |-> Binding(last_key')])
       /\ ~(pc = "inkey" /\ pc' = "recv") => sent' = sent]_vars

\* witness of C18: an upper-case W was read and the move up is the one
\* message sent
C18_Witness ==
    /\ pc = "recv"
    /\ last_key = "W"
    /\ sent = <<[type |-> "move", dir |-> "up"]>>

(***************************************************************************)
(* C19: after handle_state, the Player cell placed for player id p has     *)
(* is_self true if and only if p equals the you field of the message; when *)
(* the you field is absent, no Player cell placed by the message is marked *)
(* self.  The cell is the registry entry of p, and the cell of the grid at *)
(* p's position unless another descriptor of the message names that cell.  *)
(***************************************************************************)
C19_SelfIffYou ==
    [][(Handled /\ data'.type = "state") =>
        \A i \in 1..Len(data'.players) :
            LET p    == data'.players[i]
                mine == IF "you" \in DOMAIN data' THEN data'.you = p.id ELSE FALSE
                cell == CellOf(p, map_size)
            IN  /\ players'[p.id].kind = "Player"
                /\ players'[p.id].is_self = mine
                /\ cell \notin OtherWrites(data', {p.id}, map_size)
                      => At(map', cell) = Player(p.x, p.y, mine)]_vars

\* witness of C19: a state message naming p1 as you placed p1 and p2; p1's
\* cell is marked self and p2's is not
C19_Witness ==
    /\ pc = "inkey"
    /\ data.type = "state"
    /\ "you" \in DOMAIN data
    /\ DOMAIN players = {"p1", "p2"}
    /\ players["p1"].is_self
    /\ ~players["p2"].is_self
    /\ PosOf(players["p1"]) # PosOf(players["p2"])

\* the largest element of a non-empty set of integers
Last(S) == CHOOSE i \in S : \A j \in S : j <= i

\* the items of a list of descriptors that name the cell c of the grid
Naming(items, c, size) == {i \in 1..Len(items) : CellOf(items[i], size) = c}

(***************************************************************************)
(* C20: within one state message the writes are applied in the order       *)
(* players, enemies, treasure: a cell named by several descriptors holds   *)
(* the treasure over an enemy over a player (the last of its kind in the   *)
(* message), a cell named by none holds what it held, and a tracked player *)
(* or enemy whose cell no other descriptor names is the cell the grid      *)
(* holds at its position when handle_state returns.                        *)
(***************************************************************************)
C20_WriteOrder ==
    [][(Handled /\ data'.type = "state") =>
        LET d  == data'
            ps == d.players
            es == d.enemies.items
            tr == IF "treasure" \in DOMAIN d THEN {CellOf(d.treasure, map_size)} ELSE {}
        IN  /\ \A c \in Coords(map') :
                  LET P == Naming(ps, c, map_size)
                      E == Naming(es, c, map_size)
                  IN  At(map', c) =
                        IF c \in tr THEN treasure'
                        ELSE IF E # {} THEN enemies'[Last(E)]
                        ELSE IF P # {} THEN players'[ps[Last(P)].id]
                        ELSE At(map, c)
            /\ \A i \in 1..Len(ps) :
                  LET c == CellOf(ps[i], map_size)
                  IN  (Naming(ps, c, map_size) = {i} /\ Naming(es, c, map_size) = {}
                         /\ c \notin tr)
                      => At(map', c) = players'[ps[i].id]
            /\ Len(enemies') = Len(es)
            /\ \A i \in 1..Len(es) :
                  LET c == CellOf(es[i], map_size)
                  IN  (Naming(es, c, map_size) = {i} /\ Naming(ps, c, map_size) = {}
                         /\ c \notin tr)
                      => At(map', c) = enemies'[i] /\ enemies'[i].kind = "Enemy"]_vars

\* witness of C20: a state message put a player and an enemy on one cell,
\* and the grid holds the enemy there
C20_Witness ==
    /\ pc = "inkey"
    /\ data.type = "state"
    /\ \E p \in DOMAIN players :
          /\ enemies # <<>>
          /\ CellOf(players[p], map_size) = CellOf(enemies[1], map_size)
          /\ At(map, CellOf(players[p], map_size)) = enemies[1]

====
